---- MODULE Spec2Model ----
(***************************************************************************)
(* Model of bioptim/dynamics/integrator.py: the construction of a CasADi   *)
(* integrator (Integrator.__init__ -> _initialize -> dxdt -> Function) and *)
(* the public operations of the constructed object.                        *)
(*                                                                         *)
(* The CasADi graph is symbolic; the model follows it at one valuation of  *)
(* its symbols (ode.t, ode.x, ode.u, ode.param, ode.a), drawn in Init.     *)
(* Numbers are exact rationals <<numerator, denominator>>.  A state vector *)
(* has two rows.  When the model declares a quaternion, row 2 stands for   *)
(* the quaternion block, restricted to the real axis (w, 0, 0, 0): its     *)
(* Euclidean norm is |w|.  <<0, 0>> is the invalid number (NaN).  A call   *)
(* of get_u on numbers rounds every operation to a binary floating-point   *)
(* format of Precision significant bits.                                   *)
(***************************************************************************)
EXTENDS Integers, Sequences, FiniteSets, TLC

VARIABLES
    scheme,      \* the class being constructed
    ode,         \* the ode description (valuation of the symbols)
    ode_opt,     \* the ode options
    pc,          \* position of the constructor
    _n_step,     \* self._n_step
    _c,          \* self._c, the coefficients of the collocation equation
    _d,          \* self._d, the coefficients of the continuity equation
    function,    \* self.function: None, or the outputs of the built graph
    step_times_from_dt, \* self.step_times_from_dt: None, or the time grid
    x,           \* RK.dxdt / TRAPEZOIDAL.dxdt: the columns built so far
    states_end,  \* COLLOCATION.dxdt: the end state accumulated so far
    defects,     \* COLLOCATION.dxdt: the defects appended so far
    i,           \* the loop index of dxdt (i of RK.dxdt, j of COLLOCATION.dxdt)
    raised,      \* the exception that ended the constructor, or None
    normalize_calls, \* number of calls of model.normalize_state_quaternions
    ret,         \* what the last public call returned
    calls        \* the calls the constructor made so far

config == <<scheme, ode, ode_opt>>
attributes == <<_n_step, _c, _d, function, step_times_from_dt>>
locals == <<x, states_end, defects, i>>
vars == <<config, pc, attributes, locals, raised, normalize_calls, ret, calls>>

None == "None"

-----------------------------------------------------------------------------
(* Exact rational arithmetic.                                              *)

Abs(n) == IF n < 0 THEN -n ELSE n

RECURSIVE GCD(_, _)
GCD(a, b) == IF b = 0 THEN a ELSE GCD(b, a % b)

NaN == <<0, 0>>
IsNaN(a) == a[2] = 0

Rat(n, d) ==
    IF d = 0 THEN NaN
    ELSE LET g == GCD(Abs(n), Abs(d))
             s == IF d < 0 THEN -1 ELSE 1
         IN  <<(s * n) \div g, (s * d) \div g>>

R(k) == <<k, 1>>

RAdd(a, b) ==
    IF IsNaN(a) \/ IsNaN(b) THEN NaN
    ELSE LET g == GCD(a[2], b[2])
         IN  Rat(a[1] * (b[2] \div g) + b[1] * (a[2] \div g), (a[2] \div g) * b[2])
RNeg(a) == <<-a[1], a[2]>>
RSub(a, b) == RAdd(a, RNeg(b))
RMul(a, b) ==
    IF IsNaN(a) \/ IsNaN(b) THEN NaN
    ELSE LET g1 == GCD(Abs(a[1]), b[2])
             g2 == GCD(Abs(b[1]), a[2])
         IN  <<(a[1] \div g1) * (b[1] \div g2), (a[2] \div g2) * (b[2] \div g1)>>
RDiv(a, b) == RMul(a, Rat(b[2], b[1]))

\* Vectors (columns) of rationals.
VAdd(v, w) == [k \in DOMAIN v |-> RAdd(v[k], w[k])]
VSub(v, w) == [k \in DOMAIN v |-> RSub(v[k], w[k])]
VScale(r, v) == [k \in DOMAIN v |-> RMul(r, v[k])]

-----------------------------------------------------------------------------
(* The collaborators: enums, the dynamics function, the model.             *)

ControlType == {"CONSTANT", "CONSTANT_WITH_LAST_NODE", "LINEAR_CONTINUOUS", "NONE"}
DefectType == {"EXPLICIT", "IMPLICIT", "NOT_APPLICABLE"}

ExplicitSchemes == {"RK1", "RK2", "RK4", "RK8"}
CollocationFamily == {"COLLOCATION", "IRK"}
ConcreteSchemes == ExplicitSchemes \cup {"TRAPEZOIDAL"} \cup CollocationFamily

\* The base type, and the placeholder that overrides nothing of it.
BaseSchemes == {"Integrator", "CVODES"}
Schemes == ConcreteSchemes \cup BaseSchemes

Dynamics == {"linear", "forced", "timevar", "chain"}

\* The dynamics of COLLOCATION: one that reads the state, and two whose
\* solutions are polynomials of the time.  The dynamics of IRK: "resonant"
\* grows at the rate u / 12, which makes the Newton matrix of the one-point
\* Radau scheme singular over a step of 12 under the control 1.
CollocationDynamics == {"linear", "forced", "constant"}
IRKDynamics == {"linear", "forced", "resonant"}

\* The dynamics the valuation draws from.  The ten nested stages of RK8 are
\* followed on the dynamics whose slopes stay within the 32-bit integers of
\* the rational arithmetic.
DynamicsFor(s) ==
    IF s = "RK8" THEN {"forced", "chain"}
    ELSE IF s = "COLLOCATION" THEN CollocationDynamics
    ELSE IF s = "IRK" THEN IRKDynamics
    ELSE IF s \in BaseSchemes THEN {"linear"}
    ELSE Dynamics

\* The algebraic state read by the dynamics: none when the symbol is empty.
AVal(a) == IF a = <<>> THEN R(0) ELSE a[1]

\* self.fun(vertcat(t, h), x, u, p, a)[:, self.ode_idx]
fun(t, hh, xx, u, p, a) ==
    CASE ode.ode = "linear" ->
            <<RAdd(RSub(u[1], xx[1]), p), RAdd(RSub(xx[1], xx[2]), AVal(a))>>
      [] ode.ode = "forced" ->
            <<RAdd(RAdd(RMul(t, u[1]), p), hh), RSub(RAdd(AVal(a), t), u[1])>>
      [] ode.ode = "chain" ->
            <<RAdd(xx[2], u[1]), RAdd(p, AVal(a))>>
      [] ode.ode = "timevar" ->
            <<RSub(RAdd(t, u[1]), xx[1]), RSub(hh, xx[2])>>
      [] ode.ode = "constant" ->
            <<RSub(p, RMul(R(2), u[1])), AVal(a)>>
      [] ode.ode = "resonant" ->
            <<RAdd(RDiv(RMul(xx[1], u[1]), R(12)), p), RAdd(p, AVal(a))>>

\* self.implicit_fun(t, x, u, p, a, xdot): the residual of the dynamics
implicit_fun(t, hh, xx, u, p, a, xdot) == VSub(xdot, fun(t, hh, xx, u, p, a))

\* Euclidean norm of the quaternion block of a state.
QuaternionNorm(xx) == <<Abs(xx[2][1]), xx[2][2]>>

\* self.model.normalize_state_quaternions
normalize_state_quaternions(xx) ==
    <<xx[1], IF xx[2][1] < 0 THEN R(-1) ELSE R(1)>>

-----------------------------------------------------------------------------
(* Floating point: round to nearest, ties to even, Precision-bit mantissa. *)

Precision == 4

RECURSIVE Pow2(_)
Pow2(n) == IF n = 0 THEN 1 ELSE 2 * Pow2(n - 1)

\* <<a, d>> scaled by powers of two until Pow2(Precision - 1) <= a / d <
\* Pow2(Precision)
RECURSIVE Mantissa(_, _)
Mantissa(a, d) ==
    IF a >= d * Pow2(Precision) THEN Mantissa(a, 2 * d)
    ELSE IF a < d * Pow2(Precision - 1) THEN Mantissa(2 * a, d)
    ELSE <<a, d>>

\* the integer nearest to a / d, the even one when two are as near
RoundHalfEven(a, d) ==
    LET q == a \div d
        r == a % d
    IN  IF 2 * r > d THEN q + 1
        ELSE IF 2 * r = d THEN q + (q % 2)
        ELSE q

\* the floating-point number a real result is rounded to
fl(q) ==
    IF IsNaN(q) \/ q[1] = 0 THEN q
    ELSE LET a == Abs(q[1])
             m == Mantissa(a, q[2])
             ulp == RDiv(Rat(a, q[2]), Rat(m[1], m[2]))
             rounded == RMul(R(RoundHalfEven(m[1], m[2])), ulp)
         IN  IF q[1] < 0 THEN RNeg(rounded) ELSE rounded

-----------------------------------------------------------------------------
(* Integrator: the control at a given time.                                *)

ConstantPolicies == {"CONSTANT", "CONSTANT_WITH_LAST_NODE"}

\* get_u falling back to the constant policy for an unknown control type
get_u_default_constant(u, t) ==
    IF ode_opt.control_type = "LINEAR_CONTINUOUS"
    THEN LET dt_norm == RDiv(RSub(t, ode.t[1]), ode.t[2])
         IN  [raise |-> None,
              value |-> <<RAdd(u[1], RMul(RSub(u[2], u[1]), dt_norm))>>]
    ELSE [raise |-> None, value |-> u]

\* Integrator.get_u: [raise |-> the exception raised or None, value |-> the
\* matrix returned].  u is the control matrix, a sequence of columns.
get_u(u, t) ==
    IF ode_opt.control_type \in ConstantPolicies
    THEN [raise |-> None, value |-> u]
    ELSE IF ode_opt.control_type = "LINEAR_CONTINUOUS"
    THEN LET dt_norm == RDiv(RSub(t, ode.t[1]), ode.t[2])
         IN  [raise |-> None,
              value |-> <<RAdd(u[1], RMul(RSub(u[2], u[1]), dt_norm))>>]
    ELSE [raise |-> "RuntimeError", value |-> <<>>]

\* get_u interpolating on the absolute time instead of the time since t_start
get_u_float_absolute_time(u, t) ==
    IF ode_opt.control_type \in ConstantPolicies
    THEN [raise |-> None, value |-> u]
    ELSE IF ode_opt.control_type = "LINEAR_CONTINUOUS"
    THEN LET dt_norm == fl(RDiv(t, ode.t[2]))
         IN  [raise |-> None,
              value |-> <<fl(RAdd(u[1], fl(RMul(fl(RSub(u[2], u[1])), dt_norm))))>>]
    ELSE [raise |-> "RuntimeError", value |-> <<>>]

\* Integrator.get_u called on numbers: every operation of the linear branch
\* rounds its result
get_u_float(u, t) ==
    IF ode_opt.control_type \in ConstantPolicies
    THEN [raise |-> None, value |-> u]
    ELSE IF ode_opt.control_type = "LINEAR_CONTINUOUS"
    THEN LET dt_norm == fl(RDiv(fl(RSub(t, ode.t[1])), ode.t[2]))
         IN  [raise |-> None,
              value |-> <<fl(RAdd(u[1], fl(RMul(fl(RSub(u[2], u[1])), dt_norm))))>>]
    ELSE [raise |-> "RuntimeError", value |-> <<>>]

-----------------------------------------------------------------------------
(* RK: the explicit fixed-step family.                                     *)

\* RK._integration_time
RK_integration_time == RDiv(ode.t[2], R(_n_step))

\* RK.h
RK_h == RDiv(ode.t[2], R(_n_step))

\* RK1.next_x
RK1_next_x(t0, x_prev, u, p, a) ==
    VAdd(x_prev, VScale(RK_h, fun(t0, RK_h, x_prev, get_u(u, t0).value, p, a)))

\* RK2.next_x
RK2_next_x(t0, x_prev, u, p, a) ==
    LET hh == RK_h
        half == RDiv(hh, R(2))
        k1 == fun(t0, hh, x_prev, get_u(u, t0).value, p, a)
    IN  VAdd(x_prev,
             VScale(hh, fun(RAdd(t0, half), hh, VAdd(x_prev, VScale(half, k1)),
                            get_u(u, RAdd(t0, half)).value, p, a)))

\* RK4.next_x with the third slope taken from k1 instead of k2
RK4_next_x_k3_from_k1(t0, x_prev, u, p, a) ==
    LET hh == RK_h
        half == RDiv(hh, R(2))
        k1 == fun(t0, hh, x_prev, get_u(u, t0).value, p, a)
        k2 == fun(RAdd(t0, half), hh, VAdd(x_prev, VScale(half, k1)),
                  get_u(u, RAdd(t0, half)).value, p, a)
        k3 == fun(RAdd(t0, half), hh, VAdd(x_prev, VScale(half, k1)),
                  get_u(u, RAdd(t0, half)).value, p, a)
        k4 == fun(RAdd(t0, hh), hh, VAdd(x_prev, VScale(hh, k3)),
                  get_u(u, RAdd(t0, hh)).value, p, a)
    IN  VAdd(x_prev,
             VScale(RDiv(hh, R(6)),
                    VAdd(VAdd(k1, VScale(R(2), k2)), VAdd(VScale(R(2), k3), k4))))

\* RK4.next_x
RK4_next_x(t0, x_prev, u, p, a) ==
    LET hh == RK_h
        half == RDiv(hh, R(2))
        k1 == fun(t0, hh, x_prev, get_u(u, t0).value, p, a)
        k2 == fun(RAdd(t0, half), hh, VAdd(x_prev, VScale(half, k1)),
                  get_u(u, RAdd(t0, half)).value, p, a)
        k3 == fun(RAdd(t0, half), hh, VAdd(x_prev, VScale(half, k2)),
                  get_u(u, RAdd(t0, half)).value, p, a)
        k4 == fun(RAdd(t0, hh), hh, VAdd(x_prev, VScale(hh, k3)),
                  get_u(u, RAdd(t0, hh)).value, p, a)
    IN  VAdd(x_prev,
             VScale(RDiv(hh, R(6)),
                    VAdd(VAdd(k1, VScale(R(2), k2)), VAdd(VScale(R(2), k3), k4))))

\* RK8.next_x, stages k2..k10 as written in the source: the factor of h in the
\* stage's time and state arguments, the integer coefficients of k1..k9 in
\* the state argument, and the fraction of h at which the control is taken.
RK8_stages == <<
    [scale |-> <<4, 27>>,  coef |-> <<1, 0, 0, 0, 0, 0, 0, 0, 0>>,
     utime |-> <<4, 27>>],
    [scale |-> <<1, 18>>,  coef |-> <<1, 3, 0, 0, 0, 0, 0, 0, 0>>,
     utime |-> <<2, 9>>],
    [scale |-> <<1, 12>>,  coef |-> <<1, 0, 3, 0, 0, 0, 0, 0, 0>>,
     utime |-> <<1, 3>>],
    [scale |-> <<1, 8>>,   coef |-> <<1, 0, 0, 3, 0, 0, 0, 0, 0>>,
     utime |-> <<1, 2>>],
    [scale |-> <<1, 54>>,  coef |-> <<13, 0, -27, 42, 8, 0, 0, 0, 0>>,
     utime |-> <<2, 3>>],
    [scale |-> <<1, 4320>>, coef |-> <<389, 0, -54, 966, -824, 243, 0, 0, 0>>,
     utime |-> <<1, 6>>],
    [scale |-> <<1, 20>>,  coef |-> <<-234, 0, 81, -1164, 656, -122, 800, 0, 0>>,
     utime |-> <<1, 1>>],
    [scale |-> <<1, 288>>, coef |-> <<-127, 0, 18, -678, 456, -9, 576, 4, 0>>,
     utime |-> <<5, 6>>],
    [scale |-> <<1, 820>>, coef |-> <<1481, 0, -81, 7104, -3376, 72, -5040, -60, 720>>,
     utime |-> <<1, 1>>] >>

\* The weights of k1..k10 in the final combination of RK8.next_x, over 840.
RK8_weights == <<41, 0, 0, 27, 272, 27, 216, 0, 216, 41>>
RK8_weights_denominator == 840

\* sum over m = 1..Len(ks) of coef[m] * ks[m]
RECURSIVE Combination(_, _, _)
Combination(coef, ks, m) ==
    IF m = 0 THEN <<R(0), R(0)>>
    ELSE LET rest == Combination(coef, ks, m - 1)
         IN  IF coef[m] = 0 THEN rest ELSE VAdd(rest, VScale(R(coef[m]), ks[m]))

\* the slopes k1..ks of RK8.next_x
RECURSIVE RK8_slopes(_, _, _, _, _, _)
RK8_slopes(s, t0, x_prev, u, p, a) ==
    IF s = 1 THEN <<fun(t0, RK_h, x_prev, get_u(u, t0).value, p, a)>>
    ELSE LET ks == RK8_slopes(s - 1, t0, x_prev, u, p, a)
             row == RK8_stages[s - 1]
             hs == RMul(RK_h, row.scale)
         IN  Append(ks,
                    fun(RAdd(t0, hs), RK_h,
                        VAdd(x_prev, VScale(hs, Combination(row.coef, ks, s - 1))),
                        get_u(u, RAdd(t0, RMul(RK_h, row.utime))).value, p, a))

RK8_next_x(t0, x_prev, u, p, a) ==
    LET ks == RK8_slopes(10, t0, x_prev, u, p, a)
    IN  VAdd(x_prev,
             VScale(RDiv(RK_h, R(RK8_weights_denominator)),
                    Combination(RK8_weights, ks, 10)))

\* self.next_x of the class under construction
next_x(t0, x_prev, u, p, a) ==
    CASE scheme = "RK1" -> RK1_next_x(t0, x_prev, u, p, a)
      [] scheme = "RK2" -> RK2_next_x(t0, x_prev, u, p, a)
      [] scheme = "RK4" -> RK4_next_x(t0, x_prev, u, p, a)
      [] scheme = "RK8" -> RK8_next_x(t0, x_prev, u, p, a)

\* The stages of self.next_x as written in the source: for each evaluation of
\* self.fun, the fraction of h added to t0 in its time argument (dynamics) and
\* the fraction of h added to t0 in the time given to self.get_u (control).
RK_stage_times ==
    CASE scheme = "RK1" -> <<[dynamics |-> R(0), control |-> R(0)]>>
      [] scheme = "RK2" -> <<[dynamics |-> R(0), control |-> R(0)],
                             [dynamics |-> <<1, 2>>, control |-> <<1, 2>>]>>
      [] scheme = "RK4" -> <<[dynamics |-> R(0), control |-> R(0)],
                             [dynamics |-> <<1, 2>>, control |-> <<1, 2>>],
                             [dynamics |-> <<1, 2>>, control |-> <<1, 2>>],
                             [dynamics |-> R(1), control |-> R(1)]>>
      [] scheme = "RK8" -> <<[dynamics |-> R(0), control |-> R(0)]>> \o
                           [s \in 1..Len(RK8_stages) |->
                               [dynamics |-> RK8_stages[s].scale,
                                control |-> RK8_stages[s].utime]]

\* RK.dxdt with the start time of sub-step k taken at the end of the sub-step
RK_dxdt_t_off_by_one(k) == RAdd(ode.t[1], RMul(RK_integration_time, R(k)))

\* RK.dxdt, the start time of sub-step k
RK_dxdt_t(k) == RAdd(ode.t[1], RMul(RK_integration_time, R(k - 1)))

\* RK.dxdt storing the result of next_x without normalizing it
RK_dxdt_column_unnormalized(k, x_before) ==
    next_x(RK_dxdt_t(k), x_before, ode.u, ode.param, ode.a)

\* RK.dxdt, the body of the loop: the column stored for sub-step k
RK_dxdt_column(k, x_before) ==
    LET stepped == next_x(RK_dxdt_t(k), x_before, ode.u, ode.param, ode.a)
    IN  IF ode_opt.nb_quaternions > 0
        THEN normalize_state_quaternions(stepped)
        ELSE stepped

-----------------------------------------------------------------------------
(* TRAPEZOIDAL.                                                            *)

\* TRAPEZOIDAL.h
TRAPEZOIDAL_h == ode.t[2]

\* TRAPEZOIDAL.next_x taking the second slope at the start state
TRAPEZOIDAL_next_x_slope_at_start(t0, x_prev, x_next, u_prev, u_next, p, a_prev, a_next) ==
    LET dx == fun(t0, TRAPEZOIDAL_h, x_prev, u_prev, p, a_prev)
        dx_next == fun(RAdd(t0, TRAPEZOIDAL_h), TRAPEZOIDAL_h, x_prev, u_next, p, a_next)
    IN  VAdd(x_prev, VScale(RDiv(TRAPEZOIDAL_h, R(2)), VAdd(dx, dx_next)))

\* TRAPEZOIDAL.next_x
TRAPEZOIDAL_next_x(t0, x_prev, x_next, u_prev, u_next, p, a_prev, a_next) ==
    LET dx == fun(t0, TRAPEZOIDAL_h, x_prev, u_prev, p, a_prev)
        dx_next == fun(RAdd(t0, TRAPEZOIDAL_h), TRAPEZOIDAL_h, x_next, u_next, p, a_next)
    IN  VAdd(x_prev, VScale(RDiv(TRAPEZOIDAL_h, R(2)), VAdd(dx, dx_next)))

\* TRAPEZOIDAL.dxdt: the two columns of x_prev it returns
TRAPEZOIDAL_dxdt(states, controls, params, algebraic_states) ==
    LET states_next == states[2]
        controls_prev == <<controls[1]>>
        controls_next == <<controls[2]>>
        algebraic_states_prev ==
            IF algebraic_states # <<>> THEN <<algebraic_states[1]>> ELSE algebraic_states
        algebraic_states_next ==
            IF algebraic_states # <<>> THEN <<algebraic_states[2]>> ELSE algebraic_states
        stepped == TRAPEZOIDAL_next_x(ode.t[1], states[1], states_next,
                                      controls_prev, controls_next, params,
                                      algebraic_states_prev, algebraic_states_next)
    IN  <<states[1],
          IF ode_opt.nb_quaternions > 0
          THEN normalize_state_quaternions(stepped)
          ELSE stepped>>

-----------------------------------------------------------------------------
(* COLLOCATION.  Nodes, tables and states are indexed from 0 as in the     *)
(* source; a list of the source is a sequence here, element r at r + 1.    *)

\* casadi.collocation_points(degree, method), where the points are rational
collocation_points(degree, method) ==
    CASE method = "radau" /\ degree = 1 -> <<R(1)>>
      [] method = "radau" /\ degree = 2 -> <<<<1, 3>>, R(1)>>
      [] method = "legendre" /\ degree = 1 -> <<<<1, 2>>>>

Degree == ode_opt.irk_polynomial_interpolation_degree

\* COLLOCATION._integration_time
COLLOCATION_integration_time ==
    <<R(0)>> \o collocation_points(Degree, ode_opt.method)

\* self._integration_time[j]
Tau(j) == COLLOCATION_integration_time[j + 1]

\* COLLOCATION.h
COLLOCATION_h == ode.t[2]

\* the product, over the nodes r <= m other than those of skip, of
\* (tau - tau_r) / (tau_j - tau_r)
RECURSIVE BasisProduct(_, _, _, _)
BasisProduct(j, skip, tau, m) ==
    IF m < 0 THEN R(1)
    ELSE IF m \in skip THEN BasisProduct(j, skip, tau, m - 1)
    ELSE RMul(BasisProduct(j, skip, tau, m - 1),
              RDiv(RSub(tau, Tau(m)), RSub(Tau(j), Tau(m))))

\* lfcn: the Lagrange polynomial of node j at tau
lfcn(j, tau) == BasisProduct(j, {j}, tau, Degree)

\* tfcn: the time derivative of the Lagrange polynomial of node j at tau
RECURSIVE TangentSum(_, _, _)
TangentSum(j, tau, m) ==
    IF m < 0 THEN R(0)
    ELSE IF m = j THEN TangentSum(j, tau, m - 1)
    ELSE RAdd(TangentSum(j, tau, m - 1),
              RMul(RDiv(R(1), RSub(Tau(j), Tau(m))),
                   BasisProduct(j, {j, m}, tau, Degree)))

tfcn(j, tau) == TangentSum(j, tau, Degree)

\* the continuity coefficients taken at the start of the interval
COLLOCATION_initialize_d_at_start ==
    [j \in 0..Degree |->
        IF ode_opt.method = "radau"
        THEN IF j = Degree THEN R(1) ELSE R(0)
        ELSE lfcn(j, R(0))]

\* the Radau continuity coefficients selecting the first point
COLLOCATION_initialize_d_first_point ==
    [j \in 0..Degree |->
        IF ode_opt.method = "radau"
        THEN IF j = 0 THEN R(1) ELSE R(0)
        ELSE lfcn(j, R(1))]

\* COLLOCATION._initialize: the coefficients of the continuity equation
COLLOCATION_initialize_d ==
    [j \in 0..Degree |->
        IF ode_opt.method = "radau"
        THEN IF j = Degree THEN R(1) ELSE R(0)
        ELSE lfcn(j, R(1))]

\* the coefficients of the collocation equation with the two indices swapped
COLLOCATION_initialize_c_transposed ==
    [j \in 0..Degree |-> [r \in 0..Degree |-> tfcn(r, Tau(j))]]

\* COLLOCATION._initialize: the coefficients of the collocation equation
COLLOCATION_initialize_c ==
    [j \in 0..Degree |-> [r \in 0..Degree |-> tfcn(j, Tau(r))]]

\* COLLOCATION.get_u
COLLOCATION_get_u(u, t) ==
    IF ode_opt.control_type \in ConstantPolicies
    THEN get_u(u, t)
    ELSE [raise |-> "NotImplementedError", value |-> <<>>]

\* self.get_u of the class under construction
self_get_u(u, t) ==
    IF scheme \in CollocationFamily THEN COLLOCATION_get_u(u, t) ELSE get_u(u, t)

\* self.get_u of a constructed object, called on numbers
self_get_u_float(u, t) ==
    IF scheme \in CollocationFamily
    THEN IF ode_opt.control_type \in ConstantPolicies
         THEN get_u_float(u, t)
         ELSE [raise |-> "NotImplementedError", value |-> <<>>]
    ELSE get_u_float(u, t)

\* xp_j summed over every element of the state sequence, element 1 included
RECURSIVE COLLOCATION_xp_all_elements(_, _, _)
COLLOCATION_xp_all_elements(j, states, r) ==
    IF r < 0 THEN <<R(0), R(0)>>
    ELSE VAdd(COLLOCATION_xp_all_elements(j, states, r - 1),
              VScale(_c[IF r > 0 THEN r - 1 ELSE r][j], states[r + 1]))

\* COLLOCATION.dxdt: xp_j, the state derivative at collocation point j
RECURSIVE COLLOCATION_xp(_, _, _)
COLLOCATION_xp(j, states, r) ==
    IF r < 0 THEN <<R(0), R(0)>>
    ELSE IF r = 1 THEN COLLOCATION_xp(j, states, r - 1)
    ELSE VAdd(COLLOCATION_xp(j, states, r - 1),
              VScale(_c[IF r > 0 THEN r - 1 ELSE r][j], states[r + 1]))

\* COLLOCATION.dxdt: the time given to the dynamics at collocation point j
COLLOCATION_dxdt_t(j) == RAdd(ode.t[1], RMul(Tau(j), COLLOCATION_h))

\* the exceptions of one node with any unknown defect mode taken as implicit
COLLOCATION_dxdt_raise_implicit_by_default(j, controls) ==
    self_get_u(controls, Tau(j)).raise

\* COLLOCATION.dxdt: the exception raised at collocation point j, or None
COLLOCATION_dxdt_raise(j, controls) ==
    IF ode_opt.defects_type \in {"EXPLICIT", "IMPLICIT"}
    THEN self_get_u(controls, Tau(j)).raise
    ELSE "ValueError"

\* COLLOCATION.dxdt: the defect appended at collocation point j
COLLOCATION_defect(j, states, controls, params, algebraic_states) ==
    LET xp_j == COLLOCATION_xp(j, states, Degree + 1)
    IN  IF ode_opt.defects_type = "EXPLICIT"
        THEN LET f_j == fun(COLLOCATION_dxdt_t(j), COLLOCATION_h, states[j + 2],
                            self_get_u(controls, Tau(j)).value, params, algebraic_states)
             IN  VSub(xp_j, VScale(COLLOCATION_h, f_j))
        ELSE implicit_fun(COLLOCATION_dxdt_t(j), COLLOCATION_h, states[j + 2],
                          self_get_u(controls, Tau(j)).value, params, algebraic_states,
                          VScale(RDiv(R(1), COLLOCATION_h), xp_j))

\* vertcat of a list of columns
RECURSIVE vertcat(_)
vertcat(cols) == IF cols = <<>> THEN <<>> ELSE Head(cols) \o vertcat(Tail(cols))

\* the end state started from element 0 of the state sequence
COLLOCATION_states_end_start_element_0(states) == VScale(_d[0], states[1])

\* COLLOCATION.dxdt: states_end = self._d[0] * states[1]
COLLOCATION_states_end_start(states) == VScale(_d[0], states[2])

\* the trajectory output without the first element, whatever the flag
COLLOCATION_collocation_states_without_start(states) == Tail(states)

\* COLLOCATION.dxdt: collocation_states, the trajectory output
COLLOCATION_collocation_states(states) ==
    IF ode_opt.duplicate_starting_point THEN states ELSE Tail(states)

-----------------------------------------------------------------------------
(* IRK.                                                                    *)

nx == 2

\* the unknowns of vfcn, as a list of node states
IRK_collocation_states(states) ==
    IF ode_opt.duplicate_starting_point THEN Tail(states) ELSE Tail(Tail(states))

\* the node states x_irk_points[(r - 1) * nx : r * nx], r = 1, 2, ...
RECURSIVE Blocks(_)
Blocks(z) == IF Len(z) < nx THEN <<>> ELSE <<SubSeq(z, 1, nx)>> \o Blocks(SubSeq(z, nx + 1, Len(z)))

\* vfcn: the defects of COLLOCATION.dxdt as a function of the unknowns z
vfcn(z, states, controls, params, algebraic_states) ==
    LET kept == IF ode_opt.duplicate_starting_point THEN <<states[1]>>
                ELSE <<states[1], states[2]>>
        all == kept \o Blocks(z)
    IN  vertcat([j \in 1..Degree |->
                    COLLOCATION_defect(j, all, controls, params, algebraic_states)])

\* a matrix given by its rows, with every entry evaluated
Matrix(rows) == [n \in DOMAIN rows |-> rows[n] \o <<>>] \o <<>>

UnitVector(m, k) == [n \in 1..m |-> IF n = k THEN R(1) ELSE R(0)]
ZeroVector(m) == [n \in 1..m |-> R(0)]

\* Gauss-Jordan elimination of the augmented matrix M, from column k on;
\* <<>> when a column has no pivot
RECURSIVE Eliminate(_, _)
Eliminate(M, k) ==
    IF k > Len(M) THEN M
    ELSE LET rows == {n \in k..Len(M) : M[n][k] # R(0)}
         IN  IF rows = {} THEN <<>>
             ELSE LET p == CHOOSE n \in rows : \A o \in rows : n <= o
                      pivot == [c \in DOMAIN M[p] |-> RDiv(M[p][c], M[p][k])]
                      swapped == [n \in DOMAIN M |->
                                     IF n = k THEN pivot
                                     ELSE IF n = p THEN M[k] ELSE M[n]]
                      cleared == [n \in DOMAIN M |->
                                     IF n = k THEN pivot
                                     ELSE [c \in DOMAIN pivot |->
                                              RSub(swapped[n][c],
                                                   RMul(swapped[n][k], pivot[c]))]]
                  IN  Eliminate(Matrix(cleared), k + 1)

\* rootfinder("ifcn", "newton", vfcn, {"error_on_fail": False}) called from
\* the empty initial guess (zeros).  The defects of the dynamics followed here
\* are affine in the unknowns: the Newton step from zero lands on the root,
\* and a singular Jacobian leaves an invalid result, without raising.
ifcn(states, controls, params, algebraic_states) ==
    LET m == Degree * nx
        g0 == vfcn(ZeroVector(m), states, controls, params, algebraic_states) \o <<>>
        col(k) == VSub(vfcn(UnitVector(m, k), states, controls, params, algebraic_states), g0)
        jac == Matrix([k \in 1..m |-> col(k)])
        M == [n \in 1..m |-> [c \in 1..(m + 1) |->
                 IF c <= m THEN jac[c][n] ELSE RNeg(g0[n])]]
        solved == Eliminate(Matrix(M), 1)
    IN  IF solved = <<>> THEN [n \in 1..m |-> NaN]
        ELSE [n \in 1..m |-> solved[n][m + 1]]

\* rootfinder: CasADi accepts only as many unknowns as residuals
rootfinder_raise(states) ==
    IF Len(IRK_collocation_states(states)) * nx = Degree * nx
    THEN None
    ELSE "RuntimeError"

\* the list x with the solved node states taken from the last block to the
\* first
IRK_x_blocks_reversed(states, x_irk_points) ==
    [r \in 0..Degree |->
        IF r = 0 THEN states[1]
        ELSE SubSeq(x_irk_points, (Degree - r) * nx + 1, (Degree - r + 1) * nx)]

\* IRK.dxdt: the list x, the start state followed by the solved node states
IRK_x(states, x_irk_points) ==
    [r \in 0..Degree |->
        IF r = 0 THEN states[1] ELSE SubSeq(x_irk_points, (r - 1) * nx + 1, r * nx)]

\* IRK.dxdt: column r of xf
RECURSIVE IRK_xf(_, _)
IRK_xf(xs, r) ==
    IF r < 0 THEN <<R(0), R(0)>>
    ELSE VAdd(IRK_xf(xs, r - 1), VScale(_d[r], xs[r]))

\* the rootfinder option left at the default of CasADi
rootfinder_error_on_fail_default == TRUE

\* rootfinder(..., {"error_on_fail": False})
rootfinder_error_on_fail == FALSE

\* whether the Newton iteration of ifcn ended on a root, from its result
ifcn_success(x_irk_points) ==
    \A n \in DOMAIN x_irk_points : x_irk_points[n] # NaN

\* the exception of an evaluation of ifcn: a failure raises only when the
\* option error_on_fail is set
ifcn_raise(x_irk_points) ==
    IF ~ifcn_success(x_irk_points) /\ rootfinder_error_on_fail
    THEN "RuntimeError"
    ELSE None

\* IRK.dxdt from the list x on: the end state and the outputs, with the
\* exception of ifcn and whether it ended on a root
IRK_dxdt_outputs(x_irk_points, xs, xf) ==
    [raise |-> ifcn_raise(x_irk_points),
     success |-> ifcn_success(x_irk_points),
     x |-> [r \in 1..(Degree + 1) |-> xs[r - 1]],
     value |-> <<xf, <<xs[0], xf>>>>]

\* IRK.dxdt from the result of ifcn on
IRK_dxdt_from(states, x_irk_points) ==
    IRK_dxdt_outputs(x_irk_points, IRK_x(states, x_irk_points),
                     IRK_xf(IRK_x(states, x_irk_points), Degree) \o <<>>)

\* the graph built by IRK.dxdt, evaluated at the start state x0 and the
\* control u of one interval
IRK_dxdt_at(x0, u) ==
    IRK_dxdt_from([ode.x EXCEPT ![1] = x0, ![2] = x0],
                  ifcn([ode.x EXCEPT ![1] = x0, ![2] = x0], u, ode.param, ode.a) \o <<>>)

-----------------------------------------------------------------------------
(* Bounds and the valuations of the symbols.                               *)

MaxSteps == 3

\* The number of intervals of a mapped evaluation.
MapSize == 2

\* Durations are multiples of every number of finite elements up to
\* MaxSteps + 1, which keeps the sub-step size an integer.
TSpans == {<<R(0), R(12)>>, <<R(1), R(12)>>}
TSpansFor(s) == IF s \in CollocationFamily THEN {<<R(1), R(12)>>} ELSE TSpans
X0s == {<<R(1), R(1)>>, <<R(2), R(-3)>>}
XNext == <<R(0), R(2)>>
U1s == {<<R(1)>>}
U2s == {<<R(1), R(3)>>}
QueryMatrices == {<<R(1)>>, <<R(-2), R(5)>>, <<R(15), R(-2)>>}

\* The controls of the intervals of a mapped evaluation.
MapControls == {<<R(1)>>, <<R(3)>>}

\* The degrees and point families whose collocation points are rational.
CollocationPoints == {<<1, "radau">>, <<2, "radau">>, <<1, "legendre">>}

\* The control symbol has one column under the constant policies and two
\* under the linear one; TRAPEZOIDAL reads two columns whatever the policy.
ControlsFor(s, ct) ==
    IF s = "TRAPEZOIDAL" THEN U2s
    ELSE IF ct \in ConstantPolicies THEN U1s
    ELSE IF ct = "LINEAR_CONTINUOUS" THEN U2s
    ELSE U1s \cup U2s

\* The algebraic-state symbol: empty, or one column per column of the state.
AlgebraicsFor(s) ==
    IF s = "TRAPEZOIDAL" THEN {<<>>, <<R(1), R(-1)>>} ELSE {<<>>, <<R(1)>>}

\* The solution of the "forced" and "constant" dynamics from x0 at the start
\* of the time span, after the time s.
Trajectory(dyn, tt, x0, uu, pp, aa, s) ==
    LET half == RDiv(RMul(s, s), R(2))
    IN  IF dyn = "forced"
        THEN <<RAdd(x0[1], RAdd(RMul(uu[1], RAdd(RMul(tt[1], s), half)),
                                RMul(RAdd(pp, tt[2]), s))),
               RAdd(x0[2], RAdd(RMul(RAdd(RSub(AVal(aa), uu[1]), tt[1]), s), half))>>
        ELSE VAdd(x0, VScale(s, <<RSub(pp, RMul(R(2), uu[1])), AVal(aa)>>))

\* The node states 1..degree of the collocation family: arbitrary values,
\* or the values of the solution at the collocation times.
NodesFor(s, dyn, tt, x0, uu, pp, aa, degree, method) ==
    LET arbitrary == [r \in 1..degree |-> VAdd(x0, <<R(r), R(-2 * r)>>)]
        exact == [r \in 1..degree |->
                     Trajectory(dyn, tt, x0, uu, pp, aa,
                                RMul(collocation_points(degree, method)[r], tt[2]))]
    IN  IF s = "COLLOCATION" /\ dyn = "constant" THEN {exact}
        ELSE IF s = "COLLOCATION" /\ dyn = "forced" THEN {arbitrary, exact}
        ELSE {arbitrary}

\* The state symbol: a vector for RK, two columns for TRAPEZOIDAL, and for
\* the collocation family the list of degree + 2 node states, whose element
\* 1 repeats the start state unless the starting point is duplicated into a
\* symbol of its own.
StatesFor(s, x0, nodes, duplicate) ==
    IF s \in ExplicitSchemes \cup BaseSchemes THEN {<<x0>>}
    ELSE IF s = "TRAPEZOIDAL" THEN {<<x0, XNext>>}
    ELSE {<<x0, x1>> \o nodes :
             x1 \in IF duplicate THEN {x0, VAdd(x0, <<R(3), R(1)>>)} ELSE {x0}}

OptionsFor(s) ==
    IF s \in CollocationFamily
    THEN [number_of_finite_elements : {1},
          control_type : ControlType,
          defects_type : DefectType,
          duplicate_starting_point : BOOLEAN,
          nb_quaternions : {0},
          irk_polynomial_interpolation_degree : {1, 2},
          method : {"radau", "legendre"}]
    ELSE IF s \in BaseSchemes
    THEN [number_of_finite_elements : {1},
          control_type : ControlType,
          defects_type : {"NOT_APPLICABLE"},
          duplicate_starting_point : BOOLEAN,
          nb_quaternions : {0},
          irk_polynomial_interpolation_degree : {1},
          method : {"legendre"}]
    ELSE [number_of_finite_elements : 1..MaxSteps,
          control_type : ControlType,
          defects_type : {"NOT_APPLICABLE"},
          duplicate_starting_point : {FALSE},
          nb_quaternions : {0, 1},
          irk_polynomial_interpolation_degree : {1},
          method : {"legendre"}]

NoFunction ==
    [name |-> None, x0 |-> <<>>, output_names |-> <<>>,
     xf |-> <<>>, xall |-> <<>>, defects |-> <<>>, graph |-> <<>>]
\* no call made yet: the number of calls of self._initialize, of self.dxdt and
\* of self.fun, and the states argument of the last call of self.dxdt
NoCalls == [_initialize |-> 0, dxdt |-> 0, fun |-> 0, states |-> <<>>]

NoReturn == [op |-> None, u |-> <<>>, t |-> R(0), raise |-> None, value |-> <<>>]

Init ==
    /\ scheme \in Schemes
    /\ ode_opt \in OptionsFor(scheme)
    /\ <<ode_opt.irk_polynomial_interpolation_degree, ode_opt.method>> \in CollocationPoints
    /\ \E tt \in TSpansFor(scheme), x0 \in X0s, dyn \in DynamicsFor(scheme),
          uu \in ControlsFor(scheme, ode_opt.control_type),
          aa \in AlgebraicsFor(scheme) :
          \E nodes \in NodesFor(scheme, dyn, tt, x0, uu, R(2), aa,
                                 ode_opt.irk_polynomial_interpolation_degree,
                                 ode_opt.method) :
              \E xs \in StatesFor(scheme, x0, nodes, ode_opt.duplicate_starting_point) :
                  ode = [t |-> tt, x |-> xs, u |-> uu, param |-> R(2), a |-> aa,
                         ode |-> dyn]
    /\ pc = "new"
    /\ _n_step = 0
    /\ _c = <<>>
    /\ _d = <<>>
    /\ function = NoFunction
    /\ step_times_from_dt = None
    /\ x = <<>>
    /\ states_end = <<>>
    /\ defects = <<>>
    /\ i = 0
    /\ raised = None
    /\ normalize_calls = 0
    /\ ret = NoReturn
    /\ calls = NoCalls

-----------------------------------------------------------------------------
(* The state input, the output names and the shapes of each class.  A      *)
(* matrix is the sequence of its columns.                                  *)

\* Integrator._x_sym_modified
Integrator_x_sym_modified == ode.x

\* COLLOCATION._x_sym_modified
COLLOCATION_x_sym_modified ==
    IF ode_opt.duplicate_starting_point THEN ode.x ELSE Tail(ode.x)

\* the state input of IRK left as COLLOCATION defines it
IRK_x_sym_modified_inherited == COLLOCATION_x_sym_modified

\* IRK._x_sym_modified
IRK_x_sym_modified == <<ode.x[1]>>

\* self._x_sym_modified of the class under construction
_x_sym_modified ==
    IF scheme = "COLLOCATION" THEN COLLOCATION_x_sym_modified
    ELSE IF scheme = "IRK" THEN IRK_x_sym_modified
    ELSE Integrator_x_sym_modified

\* Integrator._output_names, COLLOCATION._output_names, IRK._output_names
_output_names ==
    IF scheme = "COLLOCATION" THEN <<"xf", "xall", "defects">> ELSE <<"xf", "xall">>

\* RK.shape_xf, TRAPEZOIDAL.shape_xf
RK_shape_xf == <<Len(ode.x[1]), 1>>

\* the trajectory shape of RK with one column too few
RK_shape_xall_without_start == <<Len(ode.x[1]), _n_step>>

\* RK.shape_xall, TRAPEZOIDAL.shape_xall
RK_shape_xall == <<Len(ode.x[1]), _n_step + 1>>

\* COLLOCATION.shape_xf
COLLOCATION_shape_xf == <<Len(COLLOCATION_x_sym_modified[1]), Degree + 1>>

\* COLLOCATION.shape_xall
COLLOCATION_shape_xall == <<Len(COLLOCATION_x_sym_modified[1]), Degree + 2>>

\* IRK.shape_xf
IRK_shape_xf == <<Len(IRK_x_sym_modified[1]), 1>>

\* IRK.shape_xall
IRK_shape_xall == <<Len(IRK_x_sym_modified[1]), 2>>

\* self.shape_xf of a constructed object
shape_xf ==
    IF scheme = "COLLOCATION" THEN COLLOCATION_shape_xf
    ELSE IF scheme = "IRK" THEN IRK_shape_xf
    ELSE RK_shape_xf

\* self.shape_xall of a constructed object
shape_xall ==
    IF scheme = "COLLOCATION" THEN COLLOCATION_shape_xall
    ELSE IF scheme = "IRK" THEN IRK_shape_xall
    ELSE RK_shape_xall

\* The properties that the base type declares and leaves to the schemes.
AbstractProperties ==
    {"shape_xf", "shape_xall", "time_xall", "_time_xall_from_dt_func", "_integration_time"}

\* the properties of the base type returning nothing instead of raising
Integrator_property_raise_none(name) == None

\* Integrator.shape_xf, shape_xall, time_xall, _time_xall_from_dt_func and
\* _integration_time: the exception of a read
Integrator_property_raise(name) ==
    IF name \in AbstractProperties THEN "NotImplementedError" ELSE None

\* the exception of a read of a property on the class under construction:
\* the schemes override the properties of the base type, except time_xall,
\* and TRAPEZOIDAL leaves _integration_time to the base type as well
property_raise(name) ==
    IF scheme \in BaseSchemes THEN Integrator_property_raise(name)
    ELSE IF name = "time_xall" THEN Integrator_property_raise(name)
    ELSE IF scheme = "TRAPEZOIDAL" /\ name = "_integration_time"
    THEN Integrator_property_raise(name)
    ELSE None

\* casadi.linspace(a, b, nsteps): nsteps values from a to b, evenly spaced
linspace(a, b, nsteps) ==
    [k \in 1..nsteps |-> RAdd(a, RDiv(RMul(R(k - 1), RSub(b, a)), R(nsteps - 1)))]

\* RK._time_xall_from_dt_func, TRAPEZOIDAL._time_xall_from_dt_func, at the
\* valuation of the time span
RK_time_xall_from_dt_func ==
    linspace(ode.t[1], RAdd(ode.t[1], ode.t[2]), RK_shape_xall[2])

\* COLLOCATION._time_xall_from_dt_func:
\* t_span_sym[0] + (_integration_time + [1]) * h
COLLOCATION_time_xall_from_dt_func ==
    [k \in 1..(Degree + 2) |->
        RAdd(ode.t[1], RMul((COLLOCATION_integration_time \o <<R(1)>>)[k], COLLOCATION_h))]

\* IRK._time_xall_from_dt_func
IRK_time_xall_from_dt_func == <<ode.t[1], RAdd(ode.t[1], ode.t[2])>>

\* self._time_xall_from_dt_func of the class under construction
_time_xall_from_dt_func ==
    IF scheme = "COLLOCATION" THEN COLLOCATION_time_xall_from_dt_func
    ELSE IF scheme = "IRK" THEN IRK_time_xall_from_dt_func
    ELSE RK_time_xall_from_dt_func

\* Function("integrator", [t_span_sym, _x_sym_modified, u_sym, param_sym,
\* a_sym], dxdt(...), _input_names, _output_names): the state input, the
\* output names and the outputs that dxdt returned, at the valuation of the
\* symbols; graph holds the outputs at other controls, for the scheme
\* whose graph is followed there
Function(xf, xall, defects_out) ==
    [name |-> "integrator", x0 |-> _x_sym_modified, output_names |-> _output_names,
     xf |-> xf, xall |-> xall, defects |-> defects_out, graph |-> <<>>]

\* self.x_sym
x_sym == ode.x

\* the derivation routine given the state input of the Function
dxdt_states_modified == _x_sym_modified

\* Integrator.__init__: the states argument of self.dxdt
dxdt_states == x_sym

\* one call of self.next_x counted without its first slope
next_x_evaluations_without_k1 == Len(RK_stage_times) - 1

\* the number of calls of self.fun in one call of self.next_x
next_x_evaluations == Len(RK_stage_times)

-----------------------------------------------------------------------------
(* The constructor.                                                        *)

\* RK.__init__ / TRAPEZOIDAL.__init__, then Integrator.__init__ up to the
\* call of _initialize
Integrator__init__ ==
    /\ pc = "new"
    /\ _n_step' = IF scheme \in ExplicitSchemes
                  THEN ode_opt.number_of_finite_elements
                  ELSE IF scheme = "TRAPEZOIDAL" THEN 1 ELSE 0
    /\ function' = NoFunction
    /\ pc' = "_initialize"
    /\ UNCHANGED <<config, _c, _d, step_times_from_dt, locals, raised, normalize_calls, ret, calls>>

\* Integrator._initialize
Integrator_initialize ==
    /\ pc = "_initialize"
    /\ scheme \notin CollocationFamily
    /\ calls' = [calls EXCEPT !._initialize = @ + 1]
    /\ pc' = "step_times"
    /\ UNCHANGED <<config, attributes, locals, raised, normalize_calls, ret>>

\* COLLOCATION._initialize
COLLOCATION_initialize ==
    /\ pc = "_initialize"
    /\ scheme \in CollocationFamily
    /\ _c' = COLLOCATION_initialize_c
    /\ _d' = COLLOCATION_initialize_d
    /\ calls' = [calls EXCEPT !._initialize = @ + 1]
    /\ pc' = "step_times"
    /\ UNCHANGED <<config, _n_step, function, step_times_from_dt, locals, raised,
                   normalize_calls, ret>>

\* Integrator.__init__: self.step_times_from_dt = self._time_xall_from_dt_func
Integrator_step_times ==
    /\ pc = "step_times"
    /\ IF property_raise("_time_xall_from_dt_func") # None
       THEN /\ raised' = property_raise("_time_xall_from_dt_func")
            /\ pc' = "raised"
            /\ UNCHANGED step_times_from_dt
       ELSE /\ step_times_from_dt' = _time_xall_from_dt_func
            /\ pc' = "dxdt"
            /\ UNCHANGED raised
    /\ UNCHANGED <<config, _n_step, _c, _d, function, locals, normalize_calls, ret, calls>>

\* RK.dxdt up to the loop
RK_dxdt_enter ==
    /\ pc = "dxdt"
    /\ scheme \in ExplicitSchemes
    /\ calls' = [calls EXCEPT !.dxdt = @ + 1, !.states = dxdt_states]
    /\ x' = <<ode.x[1]>>
    /\ i' = 1
    /\ pc' = "loop"
    /\ UNCHANGED <<config, attributes, states_end, defects, raised, normalize_calls, ret>>

\* RK.dxdt, one iteration of the loop
RK_dxdt_step ==
    /\ pc = "loop"
    /\ i <= _n_step
    /\ IF self_get_u(ode.u, RK_dxdt_t(i)).raise # None
       THEN /\ raised' = self_get_u(ode.u, RK_dxdt_t(i)).raise
            /\ pc' = "raised"
            /\ UNCHANGED <<x, i, normalize_calls, calls>>
       ELSE /\ x' = Append(x, RK_dxdt_column(i, x[i]))
            /\ calls' = [calls EXCEPT !.fun = @ + next_x_evaluations]
            /\ normalize_calls' = IF ode_opt.nb_quaternions > 0
                                  THEN normalize_calls + 1
                                  ELSE normalize_calls
            /\ i' = i + 1
            /\ UNCHANGED <<raised, pc>>
    /\ UNCHANGED <<config, attributes, states_end, defects, ret>>

\* RK.dxdt returns, and Integrator.__init__ wraps the outputs in the Function
RK_dxdt_return ==
    /\ pc = "loop"
    /\ i > _n_step
    /\ function' = Function(x[Len(x)], x, <<>>)
    /\ pc' = "built"
    /\ UNCHANGED <<config, _n_step, _c, _d, step_times_from_dt, locals, raised,
                   normalize_calls, ret, calls>>

\* TRAPEZOIDAL.dxdt, and Integrator.__init__ wraps the outputs in the Function
TRAPEZOIDAL_dxdt_build ==
    /\ pc = "dxdt"
    /\ scheme = "TRAPEZOIDAL"
    /\ calls' = [calls EXCEPT !.dxdt = @ + 1, !.states = dxdt_states, !.fun = @ + 2]
    /\ x' = TRAPEZOIDAL_dxdt(ode.x, ode.u, ode.param, ode.a)
    /\ normalize_calls' = IF ode_opt.nb_quaternions > 0
                          THEN normalize_calls + 1
                          ELSE normalize_calls
    /\ function' = Function(x'[2], x', <<>>)
    /\ pc' = "built"
    /\ UNCHANGED <<config, _n_step, _c, _d, step_times_from_dt, states_end, defects, i,
                   raised, ret>>

\* COLLOCATION.dxdt up to the loop
COLLOCATION_dxdt_enter ==
    /\ pc = "dxdt"
    /\ scheme \in CollocationFamily
    /\ calls' = [calls EXCEPT !.dxdt = @ + 1, !.states = dxdt_states]
    /\ states_end' = COLLOCATION_states_end_start(ode.x)
    /\ defects' = <<>>
    /\ i' = 1
    /\ pc' = "nodes"
    /\ UNCHANGED <<config, attributes, x, raised, normalize_calls, ret>>

\* COLLOCATION.dxdt, one iteration of the loop
COLLOCATION_dxdt_node ==
    /\ pc = "nodes"
    /\ i <= Degree
    /\ IF COLLOCATION_dxdt_raise(i, ode.u) # None
       THEN /\ raised' = COLLOCATION_dxdt_raise(i, ode.u)
            /\ pc' = "raised"
            /\ UNCHANGED <<states_end, defects, i, calls>>
       ELSE /\ calls' = [calls EXCEPT !.fun = IF ode_opt.defects_type = "EXPLICIT"
                                                THEN @ + 1 ELSE @]
            /\ defects' = Append(defects,
                                 COLLOCATION_defect(i, ode.x, ode.u, ode.param, ode.a))
            /\ states_end' = VAdd(states_end, VScale(_d[i], ode.x[i + 2]))
            /\ i' = i + 1
            /\ UNCHANGED <<raised, pc>>
    /\ UNCHANGED <<config, attributes, x, normalize_calls, ret>>

\* COLLOCATION.dxdt returns, and Integrator.__init__ wraps the outputs in
\* the Function
COLLOCATION_dxdt_return ==
    /\ pc = "nodes"
    /\ i > Degree
    /\ scheme = "COLLOCATION"
    /\ function' = Function(states_end, COLLOCATION_collocation_states(ode.x),
                             vertcat(defects))
    /\ pc' = "built"
    /\ UNCHANGED <<config, _n_step, _c, _d, step_times_from_dt, locals, raised,
                   normalize_calls, ret, calls>>

\* IRK.dxdt returns, and Integrator.__init__ wraps the outputs in the
\* Function; graph gives the outputs at every control the Function is
\* evaluated at
IRK_dxdt_return(graph) ==
    /\ x' = graph[ode.u].x
    /\ function' = [Function(graph[ode.u].value[1], graph[ode.u].value[2], <<>>)
                       EXCEPT !.graph = graph]

\* IRK.dxdt after COLLOCATION.dxdt returned: the root-finding function, its
\* solution and the end state; Integrator.__init__ wraps the outputs in the
\* Function
IRK_dxdt_rootfinder ==
    /\ pc = "nodes"
    /\ i > Degree
    /\ scheme = "IRK"
    /\ IF rootfinder_raise(ode.x) # None
       THEN /\ raised' = rootfinder_raise(ode.x)
            /\ pc' = "raised"
            /\ UNCHANGED <<function, x>>
       ELSE /\ IRK_dxdt_return([u \in MapControls \cup {ode.u} |->
                                    IRK_dxdt_at(ode.x[1], u)] @@ <<>>)
                /\ pc' = "built"
                /\ UNCHANGED raised
    /\ UNCHANGED <<config, _n_step, _c, _d, step_times_from_dt, states_end, defects, i,
                   normalize_calls, ret, calls>>

-----------------------------------------------------------------------------
(* The public operations of a constructed integrator.                      *)

QueryTimes ==
    {ode.t[1], fl(RAdd(ode.t[1], fl(RDiv(ode.t[2], R(2))))), fl(RAdd(ode.t[1], ode.t[2]))}

\* a call of get_u(u, t) on the constructed object
GetU ==
    /\ pc = "built"
    /\ \E u \in QueryMatrices, t \in QueryTimes :
          /\ ode_opt.control_type = "LINEAR_CONTINUOUS" => Len(u) = 2
          /\ ret' = [op |-> "get_u", u |-> u, t |-> t,
                     raise |-> self_get_u_float(u, t).raise,
                     value |-> self_get_u_float(u, t).value]
    /\ UNCHANGED <<config, pc, attributes, locals, raised, normalize_calls, calls>>

\* self.function keeping the result of the first interval of the last
\* mapped evaluation, and returning it to the next evaluation
function_at_cached(u) ==
    IF ret.op = "map" /\ ret.raise = None
    THEN [raise |-> None, value |-> ret.value[1]]
    ELSE IF u \in DOMAIN function.graph THEN function.graph[u]
    ELSE [raise |-> None,
          value |-> [n \in 1..Len(function.output_names) |->
                        function[function.output_names[n]]]]

\* self.function evaluated at the control u of one interval
function_at(u) ==
    IF u \in DOMAIN function.graph THEN function.graph[u]
    ELSE [raise |-> None,
          value |-> [n \in 1..Len(function.output_names) |->
                        function[function.output_names[n]]]]

\* Integrator.__call__: the built graph evaluated at the valuation
Call ==
    /\ pc = "built"
    /\ ret' = [op |-> "__call__", u |-> ode.u, t |-> ode.t[1],
               raise |-> function_at(ode.u).raise,
               value |-> IF function_at(ode.u).raise # None THEN <<>>
                         ELSE [n \in 1..Len(function.output_names) |->
                                  function[function.output_names[n]]]]
    /\ UNCHANGED <<config, pc, attributes, locals, raised, normalize_calls, calls>>

\* a read of shape_xf and shape_xall on the constructed object
Shapes ==
    /\ pc = "built"
    /\ ret' = [op |-> "shape", u |-> <<>>, t |-> R(0), raise |-> None,
               value |-> <<shape_xf, shape_xall>>]
    /\ UNCHANGED <<config, pc, attributes, locals, raised, normalize_calls, calls>>

\* the value of a property of a concrete scheme
property_value(name) ==
    CASE name = "shape_xf" -> shape_xf
      [] name = "shape_xall" -> shape_xall
      [] name = "_time_xall_from_dt_func" -> _time_xall_from_dt_func
      [] name = "_integration_time" ->
            IF scheme \in CollocationFamily THEN COLLOCATION_integration_time
            ELSE RK_integration_time
      [] OTHER -> <<>>

\* a read of one of the properties that the base type declares, on the
\* constructed object or on the instance of the base type that the
\* constructor was filling when it raised
Property ==
    /\ pc = "built" \/ (pc = "raised" /\ scheme \in BaseSchemes)
    /\ \E name \in AbstractProperties :
          ret' = [op |-> "property", u |-> name, t |-> R(0),
                  raise |-> property_raise(name),
                  value |-> IF property_raise(name) # None THEN <<>>
                            ELSE property_value(name)]
    /\ UNCHANGED <<config, pc, attributes, locals, raised, normalize_calls, calls>>

\* the controls of the intervals handed to a mapped evaluation: the graphs
\* of the explicit schemes and of COLLOCATION are followed at the valuation
\* of the symbols only
MapBatches ==
    IF scheme = "IRK" THEN [1..MapSize -> MapControls]
    ELSE {[n \in 1..MapSize |-> ode.u]}

\* the mapped Function evaluating every interval on the inputs of the first
map_interval_on_first_inputs(batch, n) == function_at(batch[1])

\* self.function.map(MapSize): interval n of the mapped Function, evaluated
\* on the inputs of interval n
map_interval(batch, n) == function_at(batch[n])

\* Integrator.map(MapSize), and the evaluation of the mapped Function on
\* the intervals of a batch, one after the other
Map ==
    /\ pc = "built"
    /\ \E batch \in MapBatches :
          LET intervals == [n \in 1..MapSize |-> map_interval(batch, n)] \o <<>>
              failed == {n \in 1..MapSize : intervals[n].raise # None}
          IN  ret' = [op |-> "map", u |-> batch, t |-> ode.t[1],
                      raise |-> IF failed = {} THEN None
                                ELSE intervals[CHOOSE n \in failed :
                                         \A o \in failed : n <= o].raise,
                      value |-> IF failed # {} THEN <<>>
                                ELSE [n \in 1..MapSize |-> intervals[n].value]]
    /\ UNCHANGED <<config, pc, attributes, locals, raised, normalize_calls, calls>>

Next ==
    \/ Integrator__init__
    \/ Integrator_initialize
    \/ COLLOCATION_initialize
    \/ Integrator_step_times
    \/ RK_dxdt_enter
    \/ RK_dxdt_step
    \/ RK_dxdt_return
    \/ TRAPEZOIDAL_dxdt_build
    \/ COLLOCATION_dxdt_enter
    \/ COLLOCATION_dxdt_node
    \/ COLLOCATION_dxdt_return
    \/ IRK_dxdt_rootfinder
    \/ GetU
    \/ Call
    \/ Shapes
    \/ Property
    \/ Map

Spec == Init /\ [][Next]_vars

-----------------------------------------------------------------------------
(* Properties.                                                             *)

UnitNorm == R(1)
Built == pc = "built"
Explicit == scheme \in ExplicitSchemes
NFE == ode_opt.number_of_finite_elements
TStart == ode.t[1]
Duration == ode.t[2]

\* the state as the sub-step stores it: renormalized when the model declares
\* quaternions
Stored(v) == IF ode_opt.nb_quaternions > 0 THEN normalize_state_quaternions(v) ELSE v

\* t_start + (k-1) * duration / n
SubStepStart(k) == RAdd(TStart, RDiv(RMul(R(k - 1), Duration), R(NFE)))

\* the scheme's step applied to column k of the trajectory
SchemeStep(k) == next_x(SubStepStart(k), function.xall[k], ode.u, ode.param, ode.a)

\* C1 as stated: n+1 columns, column 0 the input state, column k the scheme's
\* step applied to column k-1 from t_start + (k-1)*duration/n with sub-step
\* duration/n, the end state being column n.
C1_TrajectoryOfSchemeSteps ==
    (Built /\ Explicit) =>
        /\ Len(function.xall) = NFE + 1
        /\ function.xall[1] = ode.x[1]
        /\ RK_h = RDiv(Duration, R(NFE))
        /\ \A k \in 1..NFE : function.xall[k + 1] = SchemeStep(k)
        /\ function.xf = function.xall[NFE + 1]

\* C1 amended: as C1, column k being the scheme's step applied to column k-1,
\* renormalized when the model declares quaternion blocks.
C1_TrajectoryOfStoredSteps ==
    (Built /\ Explicit) =>
        /\ Len(function.xall) = NFE + 1
        /\ function.xall[1] = ode.x[1]
        /\ RK_h = RDiv(Duration, R(NFE))
        /\ \A k \in 1..NFE : function.xall[k + 1] = Stored(SchemeStep(k))
        /\ function.xf = function.xall[NFE + 1]

C1_Witness ==
    /\ Built /\ Explicit /\ NFE = 3
    /\ ode_opt.nb_quaternions > 0
    /\ TStart # R(0)
    /\ SchemeStep(3) # Stored(SchemeStep(3))
    /\ function.xall[3] # function.xall[4]

\* C2: in the explicit family, with a quaternion block declared, every
\* column stored by a sub-step has a quaternion block of norm 1 (so the next
\* sub-step reads a normalized state) and the normalization ran once per
\* sub-step; with no quaternion block it never ran.
C2_QuaternionNormalizedEverySubStep ==
    Explicit =>
        /\ ode_opt.nb_quaternions > 0 =>
              /\ \A k \in 2..Len(x) : QuaternionNorm(x[k]) = UnitNorm
              /\ normalize_calls = IF Len(x) = 0 THEN 0 ELSE Len(x) - 1
              /\ Built => \A k \in 2..Len(function.xall) :
                              QuaternionNorm(function.xall[k]) = UnitNorm
        /\ ode_opt.nb_quaternions = 0 => normalize_calls = 0

C2_Witness ==
    /\ Built /\ Explicit /\ NFE >= 2
    /\ ode_opt.nb_quaternions > 0
    /\ QuaternionNorm(SchemeStep(1)) # UnitNorm
    /\ QuaternionNorm(SchemeStep(2)) # UnitNorm
    /\ normalize_calls = NFE

\* f(t, xx) of the claims: the dynamics with the control of the policy at t
F(t, xx) == fun(t, RK_h, xx, get_u(ode.u, t).value, ode.param, ode.a)

Euler(t0, xx) == VAdd(xx, VScale(RK_h, F(t0, xx)))

Midpoint(t0, xx) ==
    LET half == RDiv(RK_h, R(2))
    IN  VAdd(xx, VScale(RK_h, F(RAdd(t0, half), VAdd(xx, VScale(half, F(t0, xx))))))

Classical4(t0, xx) ==
    LET half == RDiv(RK_h, R(2))
        k1 == F(t0, xx)
        k2 == F(RAdd(t0, half), VAdd(xx, VScale(half, k1)))
        k3 == F(RAdd(t0, half), VAdd(xx, VScale(half, k2)))
        k4 == F(RAdd(t0, RK_h), VAdd(xx, VScale(RK_h, k3)))
        sum == VAdd(VAdd(k1, k4), VScale(R(2), VAdd(k2, k3)))
    IN  VAdd(xx, VScale(RDiv(RK_h, R(6)), sum))

\* the sub-steps dxdt has taken or is about to take
SubStepsInReach ==
    IF pc \in {"loop", "built"} /\ self_get_u(ode.u, TStart).raise = None
    THEN 1..Len(x)
    ELSE {}

\* C3: from every state and start time a sub-step is taken from, RK4.next_x
\* is x + h/6*(k1 + 2*k2 + 2*k3 + k4) with the classical stage points,
\* RK1.next_x is x + h*f(t0, x), RK2.next_x is x + h*f(t0 + h/2, x + h/2*f(t0, x)).
C3_ClassicalStageFormulas ==
    \A k \in SubStepsInReach :
        /\ scheme = "RK4" =>
              RK4_next_x(RK_dxdt_t(k), x[k], ode.u, ode.param, ode.a)
                  = Classical4(RK_dxdt_t(k), x[k])
        /\ scheme = "RK1" =>
              RK1_next_x(RK_dxdt_t(k), x[k], ode.u, ode.param, ode.a)
                  = Euler(RK_dxdt_t(k), x[k])
        /\ scheme = "RK2" =>
              RK2_next_x(RK_dxdt_t(k), x[k], ode.u, ode.param, ode.a)
                  = Midpoint(RK_dxdt_t(k), x[k])
        /\ (scheme \in {"RK1", "RK2", "RK4"} /\ k < Len(x) /\ ode_opt.nb_quaternions = 0) =>
              x[k + 1] = CASE scheme = "RK1" -> Euler(RK_dxdt_t(k), x[k])
                           [] scheme = "RK2" -> Midpoint(RK_dxdt_t(k), x[k])
                           [] scheme = "RK4" -> Classical4(RK_dxdt_t(k), x[k])

C3_Witness ==
    /\ scheme = "RK4" /\ Built /\ NFE >= 2
    /\ ode.ode = "timevar"
    /\ ode_opt.control_type = "LINEAR_CONTINUOUS"
    /\ x[3] = Classical4(RK_dxdt_t(2), x[2])
    /\ x[3] # Euler(RK_dxdt_t(2), x[2])
    /\ x[3] # Midpoint(RK_dxdt_t(2), x[2])

RECURSIVE SumTo(_, _)
SumTo(seq, m) == IF m = 0 THEN 0 ELSE seq[m] + SumTo(seq, m - 1)

\* the tableau of the claim: the stages' denominators and time fractions
CanonicalDenominators ==
    <<<<27, 4>>, R(18), R(12), R(8), R(54), R(4320), R(20), R(288), R(820)>>
CanonicalFractions ==
    <<<<4, 27>>, <<2, 9>>, <<1, 3>>, <<1, 2>>, <<2, 3>>, <<1, 6>>, R(1), <<5, 6>>, R(1)>>

\* C4: for every stage after the first of RK8.next_x, the coefficients of the
\* earlier slopes divided by the stage's denominator sum to the stage's time
\* fraction, and the final weights over 840 sum to 1.
C4_RK8CanonicalTableau ==
    scheme = "RK8" =>
        /\ \A s \in 1..9 :
              /\ RDiv(R(1), RK8_stages[s].scale) = CanonicalDenominators[s]
              /\ RDiv(R(SumTo(RK8_stages[s].coef, 9)), CanonicalDenominators[s])
                    = CanonicalFractions[s]
        /\ Rat(SumTo(RK8_weights, 10), RK8_weights_denominator) = R(1)

\* C5: under the constant policies get_u returns column 0 of the control
\* matrix, whatever the query time and the number of columns.
C5_ConstantPolicyReturnsColumn0 ==
    (ret.op = "get_u" /\ ode_opt.control_type \in ConstantPolicies) =>
        /\ ret.raise = None
        /\ ret.value = <<ret.u[1]>>

DtNorm(t) == fl(RDiv(fl(RSub(t, TStart)), Duration))

SupportedPolicies == ConstantPolicies \cup {"LINEAR_CONTINUOUS"}

\* C7: an explicit-family construction with a control policy that is none of
\* constant, constant-with-last-node, linear-continuous raises in its first
\* sub-step: no sub-step completes, self.function stays None, the only
\* exception is the unsupported-policy one of get_u, and no call on a
\* constructed explicit integrator raises it.
C7_UnsupportedPolicyFailsAtBuild ==
    Explicit =>
        /\ ode_opt.control_type \notin SupportedPolicies =>
              /\ function = NoFunction
              /\ pc # "built"
              /\ Len(x) <= 1
              /\ pc = "raised" => raised = "RuntimeError"
              /\ ret = NoReturn
        /\ ode_opt.control_type \in SupportedPolicies => raised = None
        /\ ret.raise # "RuntimeError"

C7_Witness ==
    /\ Explicit
    /\ ode_opt.control_type \notin SupportedPolicies
    /\ pc = "raised" /\ raised = "RuntimeError"
    /\ function = NoFunction

RecognizedDefects == {"EXPLICIT", "IMPLICIT"}

\* C8: a COLLOCATION or IRK construction with a recognized defect mode never
\* completes under the linear-continuous policy, its only exception being the
\* unsupported-policy one of COLLOCATION.get_u, and raises nothing under
\* either constant policy.
C8_CollocationSupportsConstantPoliciesOnly ==
    (scheme \in CollocationFamily /\ ode_opt.defects_type \in RecognizedDefects) =>
        /\ ode_opt.control_type = "LINEAR_CONTINUOUS" =>
              /\ pc # "built"
              /\ function = NoFunction
              /\ pc = "raised" => raised = "NotImplementedError"
        /\ ode_opt.control_type \in ConstantPolicies => raised = None

\* the trapezoidal end state of the claim, before any renormalization
TrapezoidalEnd ==
    LET u_start == <<ode.u[1]>>
        u_next == <<ode.u[2]>>
        a_start == IF ode.a = <<>> THEN <<>> ELSE <<ode.a[1]>>
        a_next == IF ode.a = <<>> THEN <<>> ELSE <<ode.a[2]>>
        slope_start == fun(TStart, Duration, ode.x[1], u_start, ode.param, a_start)
        slope_next == fun(RAdd(TStart, Duration), Duration, ode.x[2], u_next,
                          ode.param, a_next)
    IN  VAdd(ode.x[1], VScale(RDiv(Duration, R(2)), VAdd(slope_start, slope_next)))

\* C9 as stated: the end state is x_start + duration/2 * (f(t_start, x_start,
\* u_start, a_start) + f(t_start + duration, x_next, u_next, a_next)) and the
\* trajectory is exactly [x_start, end state].
C9_TrapezoidalEndState ==
    (Built /\ scheme = "TRAPEZOIDAL") =>
        /\ function.xf = TrapezoidalEnd
        /\ function.xall = <<ode.x[1], function.xf>>

\* C9 amended: the end state is that value, renormalized when the model
\* declares quaternion blocks; the trajectory is exactly [x_start, end state].
C9_TrapezoidalStoredEndState ==
    (Built /\ scheme = "TRAPEZOIDAL") =>
        /\ function.xf = Stored(TrapezoidalEnd)
        /\ function.xall = <<ode.x[1], function.xf>>

C9_Witness ==
    /\ Built /\ scheme = "TRAPEZOIDAL"
    /\ ode_opt.nb_quaternions > 0
    /\ ode.a # <<>>
    /\ TrapezoidalEnd # Stored(TrapezoidalEnd)
    /\ function.xf # ode.x[2]

\* C10: a Trapezoidal construction asked for more than one finite element
\* ends in a configuration error: it never yields a function, and never
\* goes on with one element in place of the number requested.
C10_TrapezoidalRejectsSeveralElements ==
    (scheme = "TRAPEZOIDAL" /\ NFE > 1) =>
        /\ function = NoFunction
        /\ pc \notin {"dxdt", "built"}

-----------------------------------------------------------------------------
(* Properties of the collocation family.                                   *)

BuiltCollocation == scheme = "COLLOCATION" /\ pc = "built"

RECURSIVE RPow(_, _)
RPow(a, k) == IF k = 0 THEN R(1) ELSE RMul(a, RPow(a, k - 1))

\* the sum of term(j) over j = 0..m
RECURSIVE RSum(_, _)
RSum(term(_), m) == IF m < 0 THEN R(0) ELSE RAdd(RSum(term, m - 1), term(m))

RECURSIVE VSum(_, _)
VSum(term(_), m) == IF m < 0 THEN <<R(0), R(0)>> ELSE VAdd(VSum(term, m - 1), term(m))

\* the state of node j as the end state reads it: element 1 of the state
\* sequence stands for node 0, element j + 1 for node j
EndNode(j) == ode.x[j + 2]

\* weights w are the values at normalized time 1 of the Lagrange basis
\* polynomials of the nodes: they reproduce at 1 every monomial of degree
\* 0..Degree from its values at the nodes
LagrangeBasisAtOne(w) ==
    \A k \in 0..Degree :
        LET term(j) == RMul(w[j], RPow(Tau(j), k))
        IN  RSum(term, Degree) = R(1)

\* C11: the end state of COLLOCATION is the sum over the nodes j = 0..d, node
\* 0 included, of d[j] times the state of node j, with d[j] the Lagrange basis
\* polynomial of node j at normalized time 1; the weights sum to 1, and equal
\* node states give that state.
C11_EndStateIsWeightedSumOfNodes ==
    BuiltCollocation =>
        LET weight(j) == _d[j]
            term(j) == VScale(_d[j], EndNode(j))
        IN  /\ LagrangeBasisAtOne(_d)
            /\ RSum(weight, Degree) = R(1)
            /\ function.xf = VSum(term, Degree)
            /\ (\A j \in 0..Degree : EndNode(j) = EndNode(0)) => function.xf = EndNode(0)

C11_Witness ==
    /\ BuiltCollocation
    /\ ode_opt.method = "legendre"
    /\ _d[0] # R(0)
    /\ EndNode(1) # EndNode(0)
    /\ function.xf # EndNode(1)

\* C12: for the Radau family d[j] is 1 for the last point and 0 for every
\* other one, and the end state of COLLOCATION is the state of the last node,
\* whatever the start state and the other node states.
C12_RadauEndStateIsLastNode ==
    (BuiltCollocation /\ ode_opt.method = "radau") =>
        /\ \A j \in 0..Degree : _d[j] = IF j = Degree THEN R(1) ELSE R(0)
        /\ function.xf = EndNode(Degree)

C12_Witness ==
    /\ BuiltCollocation /\ ode_opt.method = "radau"
    /\ Degree = 2
    /\ ode_opt.duplicate_starting_point
    /\ ode.x[1] # ode.x[2]
    /\ function.xf = ode.x[4]
    /\ function.xf # ode.x[3]

\* the state of node r as the defects read it: element 0 of the state
\* sequence is node 0, element r + 1 is node r
DefectNode(r) == IF r = 0 THEN ode.x[1] ELSE ode.x[r + 2]

\* table[r][j] is the derivative of the Lagrange basis polynomial of node r
\* at node j: the table differentiates at every node every monomial of
\* degree 0..Degree from its values at the nodes
LagrangeBasisDerivatives(table) ==
    \A j \in 0..Degree, k \in 0..Degree :
        LET term(r) == RMul(table[r][j], RPow(Tau(r), k))
        IN  RSum(term, Degree) = IF k = 0 THEN R(0)
                                 ELSE RMul(R(k), RPow(Tau(j), k - 1))

\* the defect of node j of the claim
ExplicitDefect(j) ==
    LET term(r) == VScale(_c[r][j], DefectNode(r))
        f == fun(RAdd(TStart, RMul(Tau(j), Duration)), Duration, DefectNode(j),
                 ode.u, ode.param, ode.a)
    IN  VSub(VSum(term, Degree), VScale(Duration, f))

\* C13: in explicit defect mode the defect of node j = 1..d is the sum over
\* the nodes r = 0..d of c[r][j] * x_r, minus duration * f at the time and
\* state of node j, with c[r][j] the derivative of the Lagrange basis
\* polynomial of node r at node j; the defects are concatenated in node order
\* into a vector of length d * state_dim.
C13_ExplicitDefects ==
    (BuiltCollocation /\ ode_opt.defects_type = "EXPLICIT") =>
        /\ LagrangeBasisDerivatives(_c)
        /\ Len(function.defects) = Degree * Len(ode.x[1])
        /\ \A j \in 1..Degree :
              SubSeq(function.defects, (j - 1) * Len(ode.x[1]) + 1, j * Len(ode.x[1]))
                  = ExplicitDefect(j)

C13_Witness ==
    /\ BuiltCollocation /\ ode_opt.defects_type = "EXPLICIT"
    /\ Degree = 2
    /\ ode_opt.duplicate_starting_point
    /\ ode.x[1] # ode.x[2]
    /\ SubSeq(function.defects, 1, 2) # SubSeq(function.defects, 3, 4)
    /\ function.defects # <<R(0), R(0), R(0), R(0)>>

\* the polynomial of the claim: the solution of the dynamics from the start
\* state, after the time s; of degree 1 for the constant dynamics and 2 for
\* the forced one
Polynomial(s) == Trajectory(ode.ode, ode.t, ode.x[1], ode.u, ode.param, ode.a, s)
PolynomialDegree == IF ode.ode = "constant" THEN 1 ELSE 2

\* the derivative of a polynomial of degree <= 2 is its central difference
SatisfiesDynamicsAt(s) ==
    VScale(<<1, 2>>, VSub(Polynomial(RAdd(s, R(1))), Polynomial(RSub(s, R(1)))))
        = fun(RAdd(TStart, s), Duration, Polynomial(s), ode.u, ode.param, ode.a)

\* the node states are the values at the nodes of a polynomial of degree <=
\* Degree that satisfies the dynamics at every non-initial node
NodesOnSolution ==
    /\ ode.ode \in {"constant", "forced"}
    /\ PolynomialDegree <= Degree
    /\ \A r \in 0..Degree : DefectNode(r) = Polynomial(RMul(Tau(r), Duration))
    /\ \A j \in 1..Degree : SatisfiesDynamicsAt(RMul(Tau(j), Duration))

\* C14: when the node states are the values at the collocation nodes of a
\* polynomial of degree <= d that satisfies the dynamics at every non-initial
\* node, every component of the explicit-mode defect vector is zero.
C14_CollocationConsistency ==
    (BuiltCollocation /\ ode_opt.defects_type = "EXPLICIT" /\ NodesOnSolution) =>
        \A n \in 1..Len(function.defects) : function.defects[n] = R(0)

C14_Witness ==
    /\ BuiltCollocation /\ ode_opt.defects_type = "EXPLICIT" /\ NodesOnSolution
    /\ ode.ode = "forced"
    /\ Degree = 2
    /\ ode.x[3] # ode.x[1] /\ ode.x[4] # ode.x[3]
    /\ function.defects = <<R(0), R(0), R(0), R(0)>>

\* C15: a COLLOCATION or IRK construction of degree >= 1 with a defect mode
\* that is neither explicit nor implicit raises ValueError during the
\* construction, and self.function is never set.
C15_UnknownDefectModeFailsAtBuild ==
    (scheme \in CollocationFamily /\ ode_opt.defects_type \notin RecognizedDefects) =>
        /\ function = NoFunction
        /\ pc # "built"
        /\ defects = <<>>
        /\ raised \in {None, "ValueError"}
        /\ pc = "raised" => raised = "ValueError"
        /\ pc = "nodes" => i = 1
        /\ ret = NoReturn

C15_Witness ==
    /\ scheme = "IRK"
    /\ ode_opt.defects_type \notin RecognizedDefects
    /\ ode_opt.control_type = "LINEAR_CONTINUOUS"
    /\ Degree = 2
    /\ pc = "raised" /\ raised = "ValueError"
    /\ function = NoFunction

\* C16: the trajectory output of COLLOCATION holds the node states in node
\* order; with duplicate_starting_point the start state is an extra first
\* column (the whole state sequence is output), without it the first element
\* of the state sequence is left out of the state input and of the
\* trajectory, which have one column fewer.
C16_CollocationTrajectoryColumns ==
    BuiltCollocation =>
        LET first == IF ode_opt.duplicate_starting_point THEN 2 ELSE 1
        IN  /\ \A j \in 0..Degree : function.xall[first + j] = EndNode(j)
            /\ function.x0 = function.xall
            /\ IF ode_opt.duplicate_starting_point
               THEN /\ Len(function.xall) = Degree + 2
                    /\ function.xall[1] = ode.x[1]
                    /\ function.xall = ode.x
               ELSE /\ Len(function.xall) = Degree + 1
                    /\ function.xall = Tail(ode.x)

C16_Witness ==
    /\ BuiltCollocation
    /\ ode_opt.duplicate_starting_point
    /\ Degree = 2
    /\ ode.x[1] # ode.x[2]
    /\ Len(function.xall) = 4
    /\ function.xall[1] = ode.x[1]

\* C17: shape_xf and shape_xall are [s, 1] and [s, n + 1] for an explicit
\* scheme with n finite elements and state dimension s; shape_xf is
\* [s, d + 1] and the declared number of trajectory columns d + 2 for
\* COLLOCATION of degree d; they are [s, 1] and [s, 2] for IRK.
C17_ShapeMetadata ==
    ret.op = "shape" =>
        LET s == Len(ode.x[1])
        IN  /\ Explicit => ret.value = << <<s, 1>>, <<s, NFE + 1>> >>
            /\ scheme = "COLLOCATION" =>
                  /\ ret.value[1] = <<s, Degree + 1>>
                  /\ ret.value[2][2] = Degree + 2
            /\ scheme = "IRK" => ret.value = << <<s, 1>>, <<s, 2>> >>

C17_Witness ==
    /\ ret.op = "shape"
    /\ scheme = "RK4"
    /\ NFE = 3
    /\ ret.value = << <<2, 1>>, <<2, 4>> >>

\* C18: the built IRK integrator takes the start state alone as state input,
\* has the two outputs xf and xall of the explicit family and no defect
\* output, and its trajectory has two columns: the start state, unchanged,
\* and the end state.
C18_IRKSignature ==
    /\ (scheme = "IRK" /\ Built) =>
          /\ function.x0 = <<ode.x[1]>>
          /\ function.output_names = <<"xf", "xall">>
          /\ Len(function.xall) = 2
          /\ function.xall[1] = ode.x[1]
          /\ function.xall[2] = function.xf
          /\ ret.op = "__call__" => ret.value = <<function.xf, function.xall>>
    /\ (Explicit /\ Built) =>
          /\ function.x0 = <<ode.x[1]>>
          /\ function.output_names = <<"xf", "xall">>
          /\ ret.op = "__call__" => ret.value = <<function.xf, function.xall>>

C18_Witness ==
    /\ scheme = "IRK" /\ Built
    /\ Degree = 2
    /\ ret.op = "__call__"
    /\ Len(ret.value) = 2
    /\ function.xf # ode.x[1]
    /\ ~IsNaN(function.xf[1])

-----------------------------------------------------------------------------
(* Properties of IRK.                                                      *)

BuiltIRK == scheme = "IRK" /\ pc = "built"

Finite(v) == \A n \in DOMAIN v : v[n] # NaN

\* the outputs of one evaluation of the built graph at the valuation
SingleEvaluation == <<function.xf, function.xall>>

\* C19: an evaluation of an IRK integrator never raises when the Newton
\* root-finder does not converge, it returns a value; in a mapped evaluation
\* over several intervals an interval that does not converge neither aborts
\* the evaluation nor changes the results of the other intervals: every
\* interval has a result, an interval at the valuation of a single
\* evaluation has the result of that evaluation, and a converging interval
\* has a finite end state.
C19_NonConvergenceDoesNotRaise ==
    BuiltIRK =>
        /\ ret.op = "__call__" =>
              /\ ret.raise = None
              /\ ret.value = SingleEvaluation
        /\ ret.op = "map" =>
              /\ ret.raise = None
              /\ Len(ret.value) = MapSize
              /\ \A n \in 1..MapSize :
                    /\ ret.u[n] = ode.u => ret.value[n] = SingleEvaluation
                    /\ function.graph[ret.u[n]].success => Finite(ret.value[n][1])

\* a mapped evaluation whose first interval does not converge and whose
\* second interval does
C19_Witness ==
    /\ BuiltIRK
    /\ ret.op = "map"
    /\ ret.raise = None
    /\ ~function.graph[ret.u[1]].success
    /\ ~Finite(ret.value[1][1])
    /\ function.graph[ret.u[2]].success
    /\ Finite(ret.value[2][1])

\* the state sequence of COLLOCATION made of the node states that IRK
\* reconstructed: the start state, its copy, and the solved unknowns
ReconstructedStates == <<x[1], x[1]>> \o Tail(x)

\* C20: IRK agrees with COLLOCATION at convergence.  For the same degree,
\* point family, time span, start state, control, parameter and algebraic
\* state, when the root-finder of IRK has converged, the node states it
\* reconstructs (the start state followed by the solved unknowns, in node
\* order) make every defect of COLLOCATION zero, and the end state of IRK is
\* the end state that COLLOCATION computes from these node states with the
\* same weights d.
C20_IRKAgreesWithCollocation ==
    (BuiltIRK /\ function.graph[ode.u].success) =>
        LET term(j) == VScale(_d[j], ReconstructedStates[j + 2])
        IN  /\ Len(x) = Degree + 1
            /\ x[1] = ode.x[1]
            /\ \A j \in 1..Degree :
                  COLLOCATION_defect(j, ReconstructedStates, ode.u, ode.param, ode.a)
                      = <<R(0), R(0)>>
            /\ function.xf = VSum(term, Degree)

\* a converged IRK of degree 2 whose two solved node states differ from each
\* other and from the start state
C20_Witness ==
    /\ BuiltIRK
    /\ function.graph[ode.u].success
    /\ Degree = 2
    /\ ode.ode = "linear"
    /\ x[2] # x[1]
    /\ x[3] # x[2]
    /\ function.xf # x[1]

-----------------------------------------------------------------------------
(* Properties of the time grid, of the base type and of the evaluations.   *)

\* the time at which the state of column k of the trajectory output is
\* defined (k = 1 is the first column): the start of the time span for the
\* start state and for node 0, t_start + tau * duration for a later node
ColumnTime(k) ==
    LET node == IF ode_opt.duplicate_starting_point THEN k - 2 ELSE k - 1
    IN  IF scheme = "COLLOCATION"
        THEN IF node <= 0 THEN TStart
             ELSE RAdd(TStart, RMul(Tau(node), Duration))
        ELSE IF scheme = "IRK"
        THEN IF k = 1 THEN TStart ELSE RAdd(TStart, Duration)
        ELSE RAdd(TStart, RDiv(RMul(R(k - 1), Duration), R(_n_step)))

\* C21: for every concrete scheme and both values of
\* duplicate_starting_point the time grid has exactly one entry per column of
\* the trajectory output, and entry k is the time at which the state of
\* column k is defined.
C21_TimeGridLabelsTrajectoryColumns ==
    Built =>
        /\ Len(step_times_from_dt) = Len(function.xall)
        /\ \A k \in 1..Len(function.xall) : step_times_from_dt[k] = ColumnTime(k)

\* C22: on the base type, which provides no concrete scheme, a read of
\* shape_xf, shape_xall, the time grid or the integration time raises
\* NotImplementedError; the construction of the base type, and of CVODES
\* which overrides nothing, therefore fails during the construction, with
\* that exception, before the derivation routine is entered, and never
\* yields a callable.
C22_BaseTypeIsAbstract ==
    scheme \in BaseSchemes =>
        /\ function = NoFunction
        /\ pc \in {"new", "_initialize", "step_times", "raised"}
        /\ pc = "raised" => raised = "NotImplementedError"
        /\ ret.op \in {"__call__", "map", "get_u", "shape"} => FALSE
        /\ ret.op = "property" => ret.raise = "NotImplementedError"

\* the construction of CVODES has failed and a read of the integration time
\* on the instance raised
C22_Witness ==
    /\ scheme = "CVODES"
    /\ pc = "raised"
    /\ raised = "NotImplementedError"
    /\ function = NoFunction
    /\ ret.op = "property"
    /\ ret.u = "_integration_time"
    /\ ret.raise = "NotImplementedError"

\* the outputs of the built graph at the valuation of the symbols
Outputs == [n \in 1..Len(function.output_names) |-> function[function.output_names[n]]]

\* the outputs of the built graph at the control u
OutputsAt(u) == IF u = ode.u THEN Outputs ELSE function.graph[u].value

\* C23: after the construction every evaluation, mapped evaluation, shape
\* query, property read and control-policy evaluation leaves the Function and
\* every attribute of the integrator unchanged, and what an evaluation
\* returns is determined by the Function and the arguments alone, so that two
\* evaluations with the same arguments return the same outputs whatever was
\* evaluated in between.
C23_StatelessAndDeterministic ==
    /\ [][Built => UNCHANGED <<config, pc, attributes, locals, raised, normalize_calls, calls>>]_vars
    /\ [](Built =>
            /\ ret.op = "__call__" => ret.value = Outputs
            /\ ret.op = "map" =>
                  \A n \in 1..MapSize : ret.value[n] = OutputsAt(ret.u[n]))

\* an evaluation of a built IRK returned, whose graph gives another result
\* at another control
C23_Witness ==
    /\ BuiltIRK
    /\ ret.op = "__call__"
    /\ ret.value = Outputs
    /\ \E u \in DOMAIN function.graph : function.graph[u].value # ret.value

\* the batch b with its intervals in the order perm
Reordered(b, perm) == [k \in 1..MapSize |-> b[perm[k]]]

-----------------------------------------------------------------------------
(* Properties of the stages, of the construction and of the shapes.        *)

\* a <= b on rationals with positive denominators
RLe(a, b) == a[1] * b[2] <= b[1] * a[2]

\* C25: in every explicit scheme, for every stage of every sub-step, the
\* control is evaluated at the absolute time passed to the dynamics for that
\* stage, and this time lies within [t_i, t_i + h] of the sub-step.
C25_StageControlAtStageTime ==
    (scheme \in ExplicitSchemes /\ pc \in {"loop", "built"} /\ i > 1) =>
        \A k \in 1..(i - 1) : \A s \in DOMAIN RK_stage_times :
            LET t0 == RK_dxdt_t(k)
                t_dynamics == RAdd(t0, RMul(RK_h, RK_stage_times[s].dynamics))
                t_control == RAdd(t0, RMul(RK_h, RK_stage_times[s].control))
            IN  /\ t_control = t_dynamics
                /\ RLe(t0, t_dynamics)
                /\ RLe(t_dynamics, RAdd(t0, RK_h))

\* the stage counts 1, 2, 4 and 8 of the four explicit schemes
StageCount1248 ==
    CASE scheme = "RK1" -> 1 [] scheme = "RK2" -> 2
      [] scheme = "RK4" -> 4 [] scheme = "RK8" -> 8

\* the number of evaluations of the dynamics in next_x of each explicit
\* scheme
StageCount ==
    CASE scheme = "RK1" -> 1 [] scheme = "RK2" -> 2
      [] scheme = "RK4" -> 4 [] scheme = "RK8" -> 10

DefectBlocks == Len(defects)

\* C27: in IRK, for both values of duplicate_starting_point, the unknowns of
\* the root-finding problem are exactly the non-start node states (nodes
\* 1..d), as many as the defect equations, and the reconstructed node state
\* x[r] is the block of the solution that the defect of node r used as its
\* node state.
C27_UnknownsAreTheNonStartNodes ==
    (scheme = "IRK" /\ pc = "nodes" /\ i > Degree) =>
        /\ Len(IRK_collocation_states(ode.x)) = Degree
        /\ Len(IRK_collocation_states(ode.x)) = DefectBlocks
        /\ \A r \in 1..Degree : IRK_collocation_states(ode.x)[r] = ode.x[r + 2]

\* the positions of the constructor inside the derivation routine and after
InDerivation == pc \in {"dxdt", "loop", "nodes", "built"}

\* C28: the initialization of the scheme (the tables c and d of the
\* collocation family) is complete before the derivation routine runs; the
\* derivation routine is invoked once, with the original state symbol
\* rather than the state input of the callable; the callable is assigned
\* only after the derivation returned and is unset at every earlier point,
\* also when the construction ends on an exception.
C28_ConstructionOrder ==
    /\ (InDerivation \/ calls.dxdt > 0) =>
          /\ calls._initialize = 1
          /\ scheme \in CollocationFamily =>
                /\ _c = COLLOCATION_initialize_c
                /\ _d = COLLOCATION_initialize_d
    /\ calls.dxdt <= 1
    /\ pc \in {"loop", "nodes", "built"} => calls.dxdt = 1
    /\ calls.dxdt = 1 => calls.states = x_sym
    /\ calls.dxdt = 0 => calls.states = <<>> /\ calls.fun = 0
    /\ function # NoFunction => Built /\ calls.dxdt = 1
    /\ Built => function # NoFunction
    /\ pc = "raised" => function = NoFunction

\* a built IRK: the derivation routine ran once on the whole state sequence,
\* which is not the state input of the callable
C28_Witness ==
    /\ BuiltIRK
    /\ calls.dxdt = 1
    /\ calls._initialize = 1
    /\ calls.states = ode.x
    /\ calls.states # _x_sym_modified
    /\ function # NoFunction

\* the rows and columns of the xf and xall outputs of the built Function
ActualShapeXf == <<Len(function.xf), 1>>
ActualShapeXall == <<Len(function.xall[1]), Len(function.xall)>>

\* C29: for every concrete scheme and both values of
\* duplicate_starting_point, the declared shape_xf and shape_xall are the
\* row and column counts of the xf and xall outputs of the derivation
\* routine.
C29_DeclaredShapesAreActualShapes ==
    (Built /\ scheme \in ConcreteSchemes) =>
        /\ shape_xf = ActualShapeXf
        /\ shape_xall = ActualShapeXall

\* the declared and actual shapes of the schemes other than COLLOCATION
ShapesAgreeOutsideCollocation ==
    (Built /\ scheme \in ConcreteSchemes \ {"COLLOCATION"}) =>
        /\ shape_xf = ActualShapeXf
        /\ shape_xall = ActualShapeXall

\* the trajectory columns agree for COLLOCATION with the duplicated start
CollocationXallAgreesWithDuplicate ==
    (BuiltCollocation /\ ode_opt.duplicate_starting_point) =>
        shape_xall = ActualShapeXall

\* COLLOCATION.dxdt: states_end after the collocation points 1..j
RECURSIVE COLLOCATION_states_end(_, _)
COLLOCATION_states_end(states, j) ==
    IF j = 0 THEN COLLOCATION_states_end_start(states)
    ELSE VAdd(COLLOCATION_states_end(states, j - 1), VScale(_d[j], states[j + 2]))

\* COLLOCATION.dxdt: the defects of the collocation points 1..j
COLLOCATION_defects(states, j) ==
    [n \in 1..j |-> COLLOCATION_defect(n, states, ode.u, ode.param, ode.a)]

\* values to put in place of an element of the state sequence
OtherElements == {<<R(7), R(-5)>>, ode.x[1], ode.x[2]}

\* C30: in the Collocation derivation over a state sequence of d + 2
\* elements, the defects read element 0 (as node 0) and elements 2..d+1 but
\* never element 1, and the end state reads elements 1..d+1 but never
\* element 0: putting any value in place of element 1 leaves every defect
\* as it is, putting any value in place of element 0 leaves the end state
\* as it is, and the defects do change with element 0.
C30_DefectsSkipElement1EndStateSkipsElement0 ==
    (scheme \in CollocationFamily /\ pc \in {"nodes", "built"}) =>
        /\ Len(ode.x) = Degree + 2
        /\ Len(defects) = i - 1
        /\ \A other \in OtherElements :
              /\ defects = COLLOCATION_defects([ode.x EXCEPT ![2] = other], i - 1)
              /\ states_end = COLLOCATION_states_end([ode.x EXCEPT ![1] = other], i - 1)
        /\ i > 1 =>
              \E other \in OtherElements :
                  defects # COLLOCATION_defects([ode.x EXCEPT ![1] = other], i - 1)

\* a built COLLOCATION whose elements 0 and 1 differ: the end state read
\* element 1, and is not the end state of a sequence whose element 1 is
\* the node 0 of the defects
C30_Witness ==
    /\ BuiltCollocation
    /\ ode.x[1] # ode.x[2]
    /\ Len(defects) = Degree
    /\ states_end = COLLOCATION_states_end(ode.x, Degree)
    /\ states_end # COLLOCATION_states_end([ode.x EXCEPT ![2] = ode.x[1]], Degree)
    /\ defects = COLLOCATION_defects([ode.x EXCEPT ![2] = ode.x[1]], Degree)

====
